---- MODULE Spec2Model ----
(***************************************************************************)
(* Rock-paper-scissors: the choice comparator, the choice parser, the      *)
(* best-of validator and the Game accumulator of src/src/lib.rs, and the   *)
(* round loop of src/src/main.rs.                                          *)
(***************************************************************************)
EXTENDS Integers, Sequences, FiniteSets, TLC

\* Largest value of the u8 fields of Game and of BestOf.
U8Max == 255

\* Matches of Spec are best-of-N for the accepted N up to 2 * MaxHalf + 1.
MaxHalf == 3

\* SpecApi stops calling add_point / increase_round once a counter holds MaxCalls.
MaxCalls == 6

VARIABLES
    game,       \* main.rs: `let mut game`, the Game the round loop mutates
    pc,         \* main.rs: "loop" | "summary" | "done" | "failed" ("idle" when main is not run)
    i,          \* main.rs: iterations of `for _ in 0..game.best_of()` completed
    table,      \* main.rs: the Total and Winner rows handed to the table
    tape,       \* the outcomes of the rounds main has recorded, in order
    lib_game,   \* lib.rs: a Game of the library
    lib_pc,     \* the loop over lib_game: "loop" | "done" | "panicked" ("api", "idle": no loop)
    lib_i,      \* rounds the library-backed loop has recorded
    stop_early, \* the policy stopEarlyOnClinch of the library-backed loop
    streak,     \* SpecWide: the outcome every round of the match has
    overflow,   \* "none" | "wrapped" | "panicked": what a u8 addition did
    call,       \* SpecPure: the function applied and its argument
    ret         \* SpecPure: what it returned

vars == <<game, pc, i, table, tape, lib_game, lib_pc, lib_i, stop_early,
          streak, overflow, call, ret>>

---------------------------------------------------------------------------
(* enum Winner, enum Choice *)

Winner == {"Human", "Computer", "Draw"}

Choice == {"Rock", "Paper", "Scissors"}

Ok(v) == [tag |-> "Ok", value |-> v]

Err(m) == [tag |-> "Err", msg |-> m]

Some(v) == [tag |-> "Some", value |-> v]

None == [tag |-> "None"]

---------------------------------------------------------------------------
(* impl PartialOrd for Choice *)

partial_cmp_swapped(self, other) ==
    CASE self = "Rock" /\ other = "Paper" -> "Greater"
      [] self = "Rock" /\ other = "Scissors" -> "Greater"
      [] self = "Paper" /\ other = "Rock" -> "Less"
      [] self = "Paper" /\ other = "Scissors" -> "Less"
      [] self = "Scissors" /\ other = "Paper" -> "Greater"
      [] self = "Scissors" /\ other = "Rock" -> "Less"
      [] OTHER -> "Equal"

partial_cmp(self, other) ==
    CASE self = "Rock" /\ other = "Paper" -> "Less"
      [] self = "Rock" /\ other = "Scissors" -> "Greater"
      [] self = "Paper" /\ other = "Rock" -> "Greater"
      [] self = "Paper" /\ other = "Scissors" -> "Less"
      [] self = "Scissors" /\ other = "Paper" -> "Greater"
      [] self = "Scissors" /\ other = "Rock" -> "Less"
      [] OTHER -> "Equal"

\* Game::round_winner
round_winner(human_choice, computer_choice) ==
    LET result == partial_cmp(human_choice, computer_choice)
    IN  CASE result = "Greater" -> "Human"
          [] result = "Less" -> "Computer"
          [] result = "Equal" -> "Draw"

---------------------------------------------------------------------------
(* impl TryFrom<String> for Choice.  A String is a sequence of characters. *)

LowerCase == <<"a", "b", "c", "d", "e", "f", "g", "h", "i", "j", "k", "l", "m",
               "n", "o", "p", "q", "r", "s", "t", "u", "v", "w", "x", "y", "z">>

UpperCase == <<"A", "B", "C", "D", "E", "F", "G", "H", "I", "J", "K", "L", "M",
               "N", "O", "P", "Q", "R", "S", "T", "U", "V", "W", "X", "Y", "Z">>

LowerChar(c) ==
    IF \E k \in 1..Len(UpperCase) : UpperCase[k] = c
    THEN LowerCase[CHOOSE k \in 1..Len(UpperCase) : UpperCase[k] = c]
    ELSE c

UpperChar(c) ==
    IF \E k \in 1..Len(LowerCase) : LowerCase[k] = c
    THEN UpperCase[CHOOSE k \in 1..Len(LowerCase) : LowerCase[k] = c]
    ELSE c

\* String::to_lowercase on the characters the inputs use
to_lowercase(value) == [k \in 1..Len(value) |-> LowerChar(value[k])]

try_from(value) ==
    LET s == to_lowercase(value)
    IN  CASE s = <<"r", "o", "c", "k", "\n">> \/ s = <<"r", "\n">> -> Ok("Rock")
          [] s = <<"p", "a", "p", "e", "r", "\n">> \/ s = <<"p", "\n">> -> Ok("Paper")
          [] s = <<"s", "c", "i", "s", "s", "o", "r", "s", "\n">> \/ s = <<"s", "\n">>
               -> Ok("Scissors")
          [] OTHER -> Err("Unknown choice")

---------------------------------------------------------------------------
(* struct BestOf(u8) *)

BestOfNew_or(number) ==
    IF (number % 2 /= 0) \/ (number > 2)
    THEN Ok(number)
    ELSE Err("Number must be odd and greater than 2")

\* BestOf::new
BestOfNew(number) ==
    IF (number % 2 /= 0) /\ (number > 2)
    THEN Ok(number)
    ELSE Err("Number must be odd and greater than 2")

\* impl Default for BestOf
BestOfDefault == 5

\* Every BestOf the program can construct: BestOf::new's Ok values and the default.
BestOfValues == {n \in 0..U8Max : BestOfNew(n).tag = "Ok"} \cup {BestOfDefault}

---------------------------------------------------------------------------
(* struct Game *)

\* Game::new
GameNew(best_of) ==
    [human_points |-> 0,
     computer_points |-> 0,
     round |-> 1,
     best_of |-> IF best_of.tag = "Some" THEN best_of.value ELSE BestOfDefault]

\* `+= 1` on a u8 in a build without overflow checks
U8Inc(x) == (x + 1) % (U8Max + 1)

add_point_to_human(g, player) ==
    CASE player = "Human" -> [g EXCEPT !.human_points = U8Inc(@)]
      [] player = "Computer" -> [g EXCEPT !.human_points = U8Inc(@)]
      [] player = "Draw" -> g

\* Game::add_point
add_point(g, player) ==
    CASE player = "Human" -> [g EXCEPT !.human_points = U8Inc(@)]
      [] player = "Computer" -> [g EXCEPT !.computer_points = U8Inc(@)]
      [] player = "Draw" -> g

\* Game::increase_round
increase_round(g) == [g EXCEPT !.round = U8Inc(@)]

\* The u8 additions of add_point and increase_round that exceed U8Max
AddPointOverflows(g, player) ==
    \/ player = "Human" /\ g.human_points + 1 > U8Max
    \/ player = "Computer" /\ g.computer_points + 1 > U8Max

IncreaseRoundOverflows(g) == g.round + 1 > U8Max

game_winner_repeated_test(g) ==
    IF g.computer_points > g.human_points THEN "Computer"
    ELSE IF g.computer_points > g.human_points THEN "Human"
    ELSE "Draw"

\* Game::game_winner
game_winner(g) ==
    IF g.computer_points > g.human_points THEN "Computer"
    ELSE IF g.computer_points < g.human_points THEN "Human"
    ELSE "Draw"

enough_points_half(g) ==
    LET minimum_round == g.best_of \div 2
    IN  (g.human_points = minimum_round) \/ (g.computer_points = minimum_round)

enough_points_late(g) ==
    LET minimum_round == (g.best_of \div 2) + 2
    IN  (g.human_points = minimum_round) \/ (g.computer_points = minimum_round)

\* Game::enough_points_to_end_game
enough_points_to_end_game(g) ==
    LET minimum_round == (g.best_of \div 2) + 1
    IN  (g.human_points = minimum_round) \/ (g.computer_points = minimum_round)

---------------------------------------------------------------------------
(* impl Distribution<Choice> for Standard *)

\* sample: rng.gen_range(0..=2) mapped to a Choice
sample(n) ==
    CASE n = 0 -> "Rock"
      [] n = 1 -> "Paper"
      [] OTHER -> "Scissors"

RngRange == 0..2

---------------------------------------------------------------------------
(* The lines the console can hand to the round loop *)

Words == { <<"r", "o", "c", "k">>, <<"r">>,
           <<"p", "a", "p", "e", "r">>, <<"p">>,
           <<"s", "c", "i", "s", "s", "o", "r", "s">>, <<"s">>,
           <<"l", "i", "z", "a", "r", "d">>, <<>>,
           <<"r", "o", "c", "k", " ", "p", "a", "p", "e", "r">> }

ToUpper(w) == [k \in 1..Len(w) |-> UpperChar(w[k])]

Capitalised(w) == [k \in 1..Len(w) |-> IF k = 1 THEN UpperChar(w[k]) ELSE w[k]]

Casings(w) == {w, ToUpper(w), Capitalised(w)}

\* read_line keeps the line terminator; the last line of the input may have none
Terminators == { <<>>, <<"\n">>, <<"\r", "\n">> }

ConsoleLines == {c \o t : c \in UNION {Casings(w) : w \in Words}, t \in Terminators}

\* What Choice::try_from makes of the lines read_line can return
ParsedLines == {try_from(line) : line \in ConsoleLines}

---------------------------------------------------------------------------
(* The configurations of a match *)

\* The best-of values of the matches of Spec and SpecApi
MatchBestOf == {n \in BestOfValues : n <= 2 * MaxHalf + 1}

\* Opt::best_of: the --rounds option, absent or a parsed BestOf
MatchOpts == {None} \cup {Some(n) : n \in MatchBestOf}

NoTable == [tag |-> "None"]

NoCall == [fn |-> "none"]

NoRet == [tag |-> "none"]

MainIdle ==
    /\ pc = "idle"
    /\ i = 0
    /\ table = NoTable
    /\ tape = <<>>
    /\ game = GameNew(None)

LibIdle ==
    /\ lib_pc = "idle"
    /\ lib_i = 0
    /\ stop_early = FALSE
    /\ lib_game = GameNew(None)

PureIdle ==
    /\ call = NoCall
    /\ ret = NoRet

mainVars == <<game, pc, i, table, tape>>

libVars == <<lib_game, lib_pc, lib_i, stop_early>>

pureVars == <<call, ret>>

---------------------------------------------------------------------------
(* main.rs: fn main *)

\* One iteration of `for _ in 0..game.best_of()`: read a line, parse it, draw the
\* computer's choice, decide the round, add the point, advance the round.
MainRound ==
    /\ pc = "loop"
    /\ i < game.best_of
    /\ \E human_choice \in ParsedLines, n \in RngRange :
         LET computer_choice == sample(n)
         IN  IF human_choice.tag = "Err"
             THEN /\ pc' = "failed"
                  /\ UNCHANGED <<game, i, tape>>
             ELSE LET winner == round_winner(human_choice.value, computer_choice)
                  IN  /\ game' = increase_round(add_point(game, winner))
                      /\ i' = i + 1
                      /\ tape' = Append(tape, winner)
                      /\ pc' = IF i + 1 = game.best_of THEN "summary" ELSE "loop"
    /\ UNCHANGED <<table, libVars, streak, overflow, pureVars>>

\* After the loop: the Total row and the Winner row
MainSummary ==
    /\ pc = "summary"
    /\ table' = [total_human |-> game.human_points,
                 total_computer |-> game.computer_points,
                 winner |-> game_winner(game)]
    /\ pc' = "done"
    /\ UNCHANGED <<game, i, tape, libVars, streak, overflow, pureVars>>

---------------------------------------------------------------------------
(* The library-backed loop: record a round, then stop when the policy says so *)

LibLoopBody(outcome) ==
    LET g == increase_round(add_point(lib_game, outcome))
    IN  /\ lib_game' = g
        /\ lib_i' = lib_i + 1
        /\ lib_pc' = IF \/ stop_early /\ enough_points_to_end_game(g)
                        \/ lib_i + 1 = lib_game.best_of
                     THEN "done"
                     ELSE "loop"
        /\ overflow' = IF \/ AddPointOverflows(lib_game, outcome)
                          \/ IncreaseRoundOverflows(add_point(lib_game, outcome))
                       THEN "wrapped"
                       ELSE overflow
        /\ UNCHANGED stop_early

\* The loop fed the rounds main has recorded
LibReplayRound ==
    /\ lib_pc = "loop"
    /\ lib_i < Len(tape)
    /\ LibLoopBody(tape[lib_i + 1])
    /\ UNCHANGED <<mainVars, streak, pureVars>>

---------------------------------------------------------------------------
(* A match of best_of recorded rounds on the library's Game: per round, add_point
   then increase_round, for as many rounds as best_of says *)

\* One round recorded, every round of the match having the same outcome
RecordRound ==
    /\ lib_pc = "loop"
    /\ lib_i < lib_game.best_of
    /\ lib_game' = increase_round(add_point(lib_game, streak))
    /\ lib_i' = lib_i + 1
    /\ lib_pc' = IF lib_i + 1 = lib_game.best_of THEN "done" ELSE "loop"
    /\ overflow' = IF \/ AddPointOverflows(lib_game, streak)
                      \/ IncreaseRoundOverflows(add_point(lib_game, streak))
                   THEN "wrapped"
                   ELSE overflow
    /\ UNCHANGED <<stop_early, mainVars, streak, pureVars>>

\* The same round in a build with overflow checks: the addition that exceeds
\* U8Max panics, after add_point when it is increase_round's.
RecordRoundPanics ==
    /\ lib_pc = "loop"
    /\ lib_i < lib_game.best_of
    /\ \/ AddPointOverflows(lib_game, streak)
       \/ IncreaseRoundOverflows(add_point(lib_game, streak))
    /\ lib_game' = IF AddPointOverflows(lib_game, streak)
                   THEN lib_game
                   ELSE add_point(lib_game, streak)
    /\ lib_pc' = "panicked"
    /\ overflow' = "panicked"
    /\ UNCHANGED <<lib_i, stop_early, mainVars, streak, pureVars>>

---------------------------------------------------------------------------
(* The library's Game called directly *)

ApiAddPoint ==
    /\ lib_pc = "api"
    /\ \E player \in Winner :
         /\ player = "Human" => lib_game.human_points < MaxCalls
         /\ player = "Computer" => lib_game.computer_points < MaxCalls
         /\ lib_game' = add_point(lib_game, player)
    /\ UNCHANGED <<lib_pc, lib_i, stop_early, mainVars, streak, overflow, pureVars>>

ApiIncreaseRound ==
    /\ lib_pc = "api"
    /\ lib_game.round < MaxCalls
    /\ lib_game' = increase_round(lib_game)
    /\ UNCHANGED <<lib_pc, lib_i, stop_early, mainVars, streak, overflow, pureVars>>

---------------------------------------------------------------------------
(* The pure functions applied to their inputs *)

CallTryFrom ==
    /\ \E line \in ConsoleLines :
         /\ call' = [fn |-> "try_from", value |-> line]
         /\ ret' = try_from(line)
    /\ UNCHANGED <<mainVars, libVars, streak, overflow>>

CallRoundWinner ==
    /\ \E human_choice \in Choice, computer_choice \in Choice :
         /\ call' = [fn |-> "round_winner", human_choice |-> human_choice,
                     computer_choice |-> computer_choice]
         /\ ret' = Ok(round_winner(human_choice, computer_choice))
    /\ UNCHANGED <<mainVars, libVars, streak, overflow>>

CallBestOfNew ==
    /\ \E number \in 0..U8Max :
         /\ call' = [fn |-> "BestOf::new", number |-> number]
         /\ ret' = BestOfNew(number)
    /\ UNCHANGED <<mainVars, libVars, streak, overflow>>

CallGameNew ==
    /\ \E best_of \in {None} \cup {Some(n) : n \in BestOfValues} :
         /\ call' = [fn |-> "Game::new", best_of |-> best_of]
         /\ ret' = Ok(GameNew(best_of))
    /\ UNCHANGED <<mainVars, libVars, streak, overflow>>

---------------------------------------------------------------------------
(* Specifications *)

\* A match: main's loop, and the library-backed loop with stopEarlyOnClinch
\* replaying the same rounds.
Init ==
    /\ \E best_of \in MatchOpts :
         /\ game = GameNew(best_of)
         /\ lib_game = GameNew(best_of)
    /\ pc = "loop"
    /\ i = 0
    /\ table = NoTable
    /\ tape = <<>>
    /\ lib_pc = "loop"
    /\ lib_i = 0
    /\ stop_early = TRUE
    /\ streak = "none"
    /\ overflow = "none"
    /\ PureIdle

Next == MainRound \/ MainSummary \/ LibReplayRound

Spec == Init /\ [][Next]_vars

\* The library's Game under any sequence of add_point and increase_round calls
InitApi ==
    /\ MainIdle
    /\ \E n \in MatchBestOf : lib_game = GameNew(Some(n))
    /\ lib_pc = "api"
    /\ lib_i = 0
    /\ stop_early = FALSE
    /\ streak = "none"
    /\ overflow = "none"
    /\ PureIdle

NextApi == ApiAddPoint \/ ApiIncreaseRound

SpecApi == InitApi /\ [][NextApi]_vars

\* Matches of every accepted best-of value, all rounds played
InitWide ==
    /\ MainIdle
    /\ \E n \in BestOfValues : lib_game = GameNew(Some(n))
    /\ lib_pc = "loop"
    /\ lib_i = 0
    /\ stop_early = FALSE
    /\ streak \in Winner
    /\ overflow = "none"
    /\ PureIdle

NextWide == RecordRound \/ RecordRoundPanics

SpecWide == InitWide /\ [][NextWide]_vars

\* The pure functions
InitPure ==
    /\ MainIdle
    /\ LibIdle
    /\ streak = "none"
    /\ overflow = "none"
    /\ PureIdle

NextPure == CallTryFrom \/ CallRoundWinner \/ CallBestOfNew \/ CallGameNew

SpecPure == InitPure /\ [][NextPure]_vars

---------------------------------------------------------------------------
(* Properties *)

\* The dominance cycle: Rock beats Scissors, Scissors beats Paper, Paper beats Rock
Beats == { <<"Rock", "Scissors">>, <<"Scissors", "Paper">>, <<"Paper", "Rock">> }

SwapWinner(w) ==
    CASE w = "Human" -> "Computer"
      [] w = "Computer" -> "Human"
      [] w = "Draw" -> "Draw"

\* C1: round_winner(human, computer) is Human exactly when human beats computer in
\* the cycle, Computer exactly when computer beats human, Draw exactly when the two
\* are equal; swapping the arguments swaps Human and Computer and keeps Draw.
C1_RoundWinnerTable ==
    call.fn = "round_winner" =>
        LET h == call.human_choice
            c == call.computer_choice
        IN  /\ (ret.value = "Human") <=> (<<h, c>> \in Beats)
            /\ (ret.value = "Computer") <=> (<<c, h>> \in Beats)
            /\ (ret.value = "Draw") <=> (h = c)
            /\ round_winner(c, h) = SwapWinner(ret.value)

C1_Witness ==
    /\ call.fn = "round_winner"
    /\ call.human_choice = "Rock"
    /\ call.computer_choice = "Paper"
    /\ ret.value = "Computer"

\* The line of the console without the "\n" that ends it, if it has one
StripNewline(s) ==
    IF Len(s) >= 1 /\ s[Len(s)] = "\n" THEN SubSeq(s, 1, Len(s) - 1) ELSE s

\* What the parser is to return: the word of the line, in any letter case, with or
\* without the newline
ExpectedChoice(text) ==
    LET w == to_lowercase(StripNewline(text))
    IN  CASE w \in { <<"r", "o", "c", "k">>, <<"r">> } -> Ok("Rock")
          [] w \in { <<"p", "a", "p", "e", "r">>, <<"p">> } -> Ok("Paper")
          [] w \in { <<"s", "c", "i", "s", "s", "o", "r", "s">>, <<"s">> } -> Ok("Scissors")
          [] OTHER -> Err("Unknown choice")

\* C6: try_from returns Ok(Rock) for "rock"/"r", Ok(Paper) for "paper"/"p" and
\* Ok(Scissors) for "scissors"/"s" in any letter case, with the newline and without
\* it, and Err for every other text. (Lines that hold a carriage return are left
\* out: the claim names "\n" only.)
C6_ParserAcceptsWithOrWithoutNewline ==
    (call.fn = "try_from" /\ \A k \in 1..Len(call.value) : call.value[k] /= "\r") =>
        ret = ExpectedChoice(call.value)

\* The number is odd and greater than 2
OddAbove2(n) == \E k \in 1..U8Max : n = 2 * k + 1

\* C3: BestOf::new(n) is Ok holding n exactly when n is odd and n > 2, and an Err
\* otherwise; the default holds 5; every BestOf a new Game holds is odd and > 2.
C3_BestOfNewAcceptsOddAbove2 ==
    /\ call.fn = "BestOf::new" =>
          /\ ret.tag \in {"Ok", "Err"}
          /\ (ret.tag = "Ok") <=> OddAbove2(call.number)
          /\ (ret.tag = "Ok") => (ret.value = call.number)
    /\ call.fn = "Game::new" =>
          /\ OddAbove2(ret.value.best_of)
          /\ (call.best_of.tag = "None") => (ret.value.best_of = 5)
          /\ (call.best_of.tag = "Some") => (ret.value.best_of = call.best_of.value)

C3_Witness ==
    /\ call.fn = "BestOf::new"
    /\ call.number = U8Max
    /\ ret.tag = "Ok"
    /\ ret.value = U8Max

\* The majority of best-of-n: floor(n / 2) + 1
MajorityThreshold(n) == (n \div 2) + 1

\* C2: after any add_point and increase_round calls, enough_points_to_end_game is
\* true exactly when a side's score has reached the majority threshold, a score
\* past the threshold included.
C2_EnoughPointsIffThresholdReached ==
    lib_pc = "api" =>
        (enough_points_to_end_game(lib_game) <=>
            \/ lib_game.human_points >= MajorityThreshold(lib_game.best_of)
            \/ lib_game.computer_points >= MajorityThreshold(lib_game.best_of))

\* C4: after k rounds recorded on a new Game, human_points + computer_points <= k
\* and round = 1 + k, hence human_points + computer_points <= round.
C4_PointsAndRoundAfterKRecordings ==
    lib_pc \in {"loop", "done"} =>
        /\ lib_game.human_points + lib_game.computer_points <= lib_i
        /\ lib_game.round = 1 + lib_i
        /\ lib_game.human_points + lib_game.computer_points <= lib_game.round

\* C9: in a match of N recorded rounds, for every accepted N, no u8 addition of
\* add_point or increase_round overflows and the threshold stays within u8.
C9_NoU8Overflow ==
    /\ overflow = "none"
    /\ MajorityThreshold(lib_game.best_of) <= U8Max

\* How many recorded rounds had outcome w
Count(w) == Cardinality({k \in 1..Len(tape) : tape[k] = w})

\* main has played all its rounds and printed the summary
MatchComplete == pc = "done"

\* C5 as stated: a match played to completion never ends in a draw.
C5_NoMatchDraw ==
    MatchComplete =>
        /\ table.winner /= "Draw"
        /\ \/ 2 * game.human_points > game.best_of
           \/ 2 * game.computer_points > game.best_of

\* C5, amended: a match played to completion in which no round was a draw never
\* ends in a draw: one side ends with more than N/2 points.
C5_NoMatchDrawWithoutDrawnRounds ==
    (MatchComplete /\ Count("Draw") = 0) =>
        /\ table.winner /= "Draw"
        /\ \/ 2 * game.human_points > game.best_of
           \/ 2 * game.computer_points > game.best_of

C5_Witness ==
    /\ MatchComplete
    /\ Count("Draw") = 0
    /\ game.best_of = 5
    /\ game.human_points = 3
    /\ table.winner = "Human"

\* The winner by the counts of the recorded outcomes
WinnerByCount ==
    IF Count("Human") > Count("Computer") THEN "Human"
    ELSE IF Count("Computer") > Count("Human") THEN "Computer"
    ELSE "Draw"

\* C8: main's loop records exactly N rounds whatever the score; then human_points
\* and computer_points are the numbers of Human and Computer outcomes, round is
\* N + 1, and the winner is the side with more points, Draw when they are equal.
C8_FullMatchTotals ==
    /\ pc = "loop" => (i < game.best_of /\ Len(tape) = i)
    /\ pc \in {"summary", "done"} =>
          /\ i = game.best_of
          /\ Len(tape) = game.best_of
          /\ game.human_points = Count("Human")
          /\ game.computer_points = Count("Computer")
          /\ game.round = game.best_of + 1
    /\ pc = "done" =>
          /\ table.total_human = Count("Human")
          /\ table.total_computer = Count("Computer")
          /\ table.winner = WinnerByCount

C8_Witness ==
    /\ pc = "done"
    /\ game.best_of = 5
    /\ tape = <<"Human", "Computer", "Draw", "Human", "Computer">>
    /\ game.human_points = 2
    /\ game.computer_points = 2
    /\ game.round = 6
    /\ table.winner = "Draw"

\* The stop-early loop of a best-of-3 match has recorded Human wins only
TwoHumanWinsRun ==
    /\ stop_early
    /\ lib_pc \in {"loop", "done"}
    /\ lib_game.best_of = 3
    /\ \A k \in 1..lib_i : tape[k] = "Human"

\* C7 as stated: that run ends after round 2 at 2-0 with winner Human, plays no
\* third round, and its round counter never reaches 3.
C7_RoundNeverReaches3 ==
    TwoHumanWinsRun =>
        /\ lib_i <= 2
        /\ (lib_pc = "done") <=> (lib_i = 2)
        /\ lib_i = 2 =>
              /\ lib_game.human_points = 2
              /\ lib_game.computer_points = 0
              /\ game_winner(lib_game) = "Human"
        /\ lib_game.round < 3

\* C7, amended: that run ends after round 2 at 2-0 with winner Human and plays no
\* third round; its round counter is 3 once the second round is recorded and
\* never reaches 4.
C7_StopsAfterTwoHumanWins ==
    TwoHumanWinsRun =>
        /\ lib_i <= 2
        /\ (lib_pc = "done") <=> (lib_i = 2)
        /\ lib_i = 2 =>
              /\ lib_game.human_points = 2
              /\ lib_game.computer_points = 0
              /\ game_winner(lib_game) = "Human"
              /\ lib_game.round = 3
        /\ lib_game.round < 4

C7_Witness ==
    /\ TwoHumanWinsRun
    /\ lib_i = 2
    /\ lib_pc = "done"
    /\ lib_game.round = 3
    /\ Len(tape) = 3

\* A Game in which a side holds exactly the threshold score: that side is alone
\* there and is the winner
ClinchedBy(g) ==
    LET t == MajorityThreshold(g.best_of)
    IN  /\ (g.human_points = t) /= (g.computer_points = t)
        /\ game_winner(g) = IF g.human_points = t THEN "Human" ELSE "Computer"

\* C10: the loop that stops at the clinch and the loop that plays all N rounds
\* yield the same winner; where enough_points_to_end_game is true within N rounds,
\* exactly one side holds the threshold score and is the winner, and the rounds
\* played after it do not change the winner.
C10_StopEarlySameWinner ==
    /\ lib_pc = "done" => game_winner(game) = game_winner(lib_game)
    /\ (lib_pc = "done" /\ pc = "done") => table.winner = game_winner(lib_game)
    /\ (lib_pc = "done" /\ lib_i < lib_game.best_of) => enough_points_to_end_game(lib_game)
    /\ enough_points_to_end_game(lib_game) => ClinchedBy(lib_game)
    /\ enough_points_to_end_game(game) => ClinchedBy(game)

C10_Witness ==
    /\ pc = "done"
    /\ lib_pc = "done"
    /\ lib_i < i
    /\ enough_points_to_end_game(lib_game)
    /\ game.human_points > lib_game.human_points
    /\ ~enough_points_to_end_game(game)

====
